---- MODULE Spec2Model ----
(***************************************************************************)
(* A model of the component store of src/core/ecs/ecs.ts (class ECS):      *)
(* the columnar arrays, the recorded defaults, the system registry and     *)
(* the operations addEntity, addComponent, removeComponent, addSystem,     *)
(* removeSystem, getById and runSystems.                                   *)
(*                                                                         *)
(* Array index i of the source (0-based) is position i + 1 of a sequence.  *)
(* Component names range over ordinary property names (no member of        *)
(* Object.prototype).  JavaScript null and undefined are the two tokens    *)
(* Null and Undefined, distinct from every data value.                     *)
(***************************************************************************)
EXTENDS Integers, Sequences, FiniteSets, TLC

\* ---------------------------------------------------------------- bounds
\* entities a store holds at most, and addSystem calls made at most, in Spec
MaxEntities == 2
MaxSystemAdds == 1
\* the same two bounds in PassSpec
MaxPassEntities == 2
MaxPassSystemAdds == 3
\* messages delivered to one render worker at most, in WorkerSpec
MaxMessages == 3
\* messages handled and frame callbacks run at most, in RenderSpec
MaxHandled == 3
MaxTicks == 3
\* connectWorker calls and DOM events dispatched at most, in ConnSpec
MaxConnections == 2
MaxDomEvents == 1
\* entities of a Scene, passes on it and vertices given to addMesh at most,
\* in SceneSpec
MaxSceneEntities == 3
MaxPasses == 2
MaxSceneVertices == 3
\* vertices given to addMesh at most, in MeshSpec
MaxVertices == 6
\* primitives of a container, buffers a context hands out and runs of render
\* at most, in GlSpec
MaxPrimitives == 2
MaxBuffers == 8
MaxGlFrames == 2

\* ---------------------------------------------------------------- values
Null == -1
Undefined == -2
DataValues == {0, 1}
Values == DataValues \cup {Null}
UserNames == {"x", "y"}
Names == UserNames \cup {"uid"}
SystemFns == {"nil", "raiseX", "copyXY"}
EmptyRecord == [k \in {} |-> Undefined]

Nullish(v) == v \in {Null, Undefined}
\* a || b: every falsy a gives b
CoalesceFalsy(a, b) == IF Nullish(a) \/ a = 0 THEN b ELSE a

\* a ?? b
Coalesce(a, b) == IF Nullish(a) THEN b ELSE a
\* obj[key] of a JavaScript object: undefined when the key is absent
Get(obj, key) == IF key \in DOMAIN obj THEN obj[key] ELSE Undefined
\* arr[i] of a JavaScript array: undefined when i is no index of it
At(arr, i) == IF i >= 0 /\ i < Len(arr) THEN arr[i + 1] ELSE Undefined

\* the records callers pass to addEntity: any subset of the names, each with
\* a data value or null
InitialValues == UNION {[D -> Values] : D \in SUBSET Names}

\* components, componentDefaults, systems: the three fields of an ECS;
\* nextSystemId: the next token crypto.randomUUID() gives (never one given
\* before); last: the last call made on the store; issuedIds: the ids
\* addEntity has returned so far, in order.
VARIABLES components, componentDefaults, systems, nextSystemId, last,
          issuedIds

ecsVars == <<components, componentDefaults, systems, nextSystemId, last,
             issuedIds>>

\* The render worker's bootstrap handler (mainWorker.js).  isReady: the
\* idempotence flag; inbox: the messages delivered so far, in order;
\* pendingInits: the bootstrap messages whose initialization is awaited;
\* initCalls: the <<module, memory>> pairs initialization was started with;
\* entrypointCalls: the pointers worker_entrypoint was called with;
\* initFailures: how many awaited initializations were rejected.
VARIABLES isReady, inbox, pendingInits, initCalls, entrypointCalls,
          initFailures

workerVars == <<isReady, inbox, pendingInits, initCalls, entrypointCalls,
                initFailures>>

\* The rendering context's message handler (workerThread.ts).  engineCount:
\* the Engines constructed so far, each with one Scene, numbered from 1;
\* contextCalls: the drawing contexts obtained; frameQueue: the scenes whose
\* frame callback is registered with the host, in registration order;
\* ticks[s], passes[s]: the frame callbacks run for scene s and the
\* runSystems passes made on it; consoleLog: the argument lists logged;
\* renderErrors: the errors thrown out of the handler; received: the data
\* of the messages handled so far, in order.
VARIABLES engineCount, contextCalls, frameQueue, ticks, passes, consoleLog,
          renderErrors, received

renderVars == <<engineCount, contextCalls, frameQueue, ticks, passes,
                consoleLog, renderErrors, received>>

\* The orchestrating context (mainThread.ts) and its channel to the worker.
\* listeners: the document's listeners, in registration order, each with the
\* connection that added it; connState[c]: whether connection c is
\* "connected" or "disconnected"; domEvents: the DOM events dispatched so
\* far; posted: every message posted, with the connection and the event it
\* came from (connection 0: attachCanvas); delivered: how many of them the
\* worker has handled; canvasMode: "element" until control of the canvas
\* is transferred, then "placeholder"; handleHolders: where a usable handle
\* of the offscreen canvas is ("main", "channel", "render"); mainLast: the
\* last call of attachCanvas and the error it threw.
VARIABLES listeners, connState, domEvents, posted, delivered, canvasMode,
          handleHolders, mainLast

mainVars == <<listeners, connState, domEvents, posted, delivered, canvasMode,
              handleHolders, mainLast>>

\* One Scene (scene.ts), its store being the ECS variables above.
\* activeCamera: Undefined until the Scene is constructed, then -1 or the
\* id of the active camera; passCount: the runSystems passes made;
\* drawCalls: the drawArrays calls of the last pass, in order; lastMesh:
\* the last call of addMesh: the positions given, whether normals were
\* given, and the positions and normals handed to addEntity; createdBy:
\* for each entity, in id order, the Scene method that made it, and for
\* addCamera its setActive argument.
VARIABLES activeCamera, passCount, drawCalls, lastMesh, createdBy

sceneVars == <<activeCamera, passCount, drawCalls, lastMesh, createdBy>>

\* The GL layer (src/core/gl/index.ts).  glInput: what the call under
\* observation is given (the parsed container, the program data, and what the
\* context will answer); glCalls: the calls made on the context, in order;
\* glConsole: the messages written to the console; glLast: the last call of
\* loadModel, draw or processAttribute, what it returned and whether it
\* threw; glCreated: how many buffers the context has handed out; glPending:
\* the animation-frame callbacks of render not yet run; glFrames: the runs
\* of render.
VARIABLES glInput, glCalls, glConsole, glLast, glCreated, glPending, glFrames

glVars == <<glInput, glCalls, glConsole, glLast, glCreated, glPending,
            glFrames>>

vars == <<ecsVars, workerVars, renderVars, mainVars, sceneVars, glVars>>

\* what the operations of one part of the program leave alone
outsideEcs == <<workerVars, renderVars, mainVars, sceneVars, glVars>>
outsideWorker == <<ecsVars, renderVars, mainVars, sceneVars, glVars>>
outsideRender == <<ecsVars, workerVars, mainVars, sceneVars, glVars>>
outsideConnection == <<ecsVars, workerVars, sceneVars, glVars>>
outsideScene ==
    <<last, issuedIds, workerVars, renderVars, mainVars, glVars>>
outsideGl == <<ecsVars, workerVars, renderVars, mainVars, sceneVars>>

\* what the last call was, what it was given and what it gave back; for
\* addComponent also prev, the default recorded for the name before the call,
\* and for runSystems log, the calls of the systems in the order made
NoCall ==
    [op |-> "new", name |-> "", fill |-> Null, dflt |-> Null, id |-> 0,
     vals |-> EmptyRecord, fn |-> "", retId |-> 0, retObj |-> EmptyRecord,
     err |-> "", prev |-> Undefined, log |-> <<>>]

\* ------------------------------------------------------------- systems
\* The value a registered system returns for a snapshot: null, or a partial
\* update.  "nil" returns null for every input; "raiseX" returns {x: 1}
\* when obj.x is 0 and null otherwise; "copyXY" returns {y: obj.x} when
\* obj.x holds data and null otherwise.
NullResult == [isNull |-> TRUE, upd |-> EmptyRecord]
Update(u) == [isNull |-> FALSE, upd |-> u]
CallSystem(fn, obj) ==
    CASE fn = "raiseX" ->
            IF Get(obj, "x") = 0 THEN Update([k \in {"x"} |-> 1])
            ELSE NullResult
      [] fn = "copyXY" ->
            IF Nullish(Get(obj, "x")) THEN NullResult
            ELSE Update([k \in {"y"} |-> obj["x"]])
      [] fn = "resetUid" ->
            IF Get(obj, "uid") = 0 THEN NullResult
            ELSE Update([k \in {"uid"} |-> 0])
      [] OTHER -> NullResult

\* ---------------------------------------------------------- runSystems
\* obj[key] = this.components[key][i] for every key
Snapshot(comps, i) == [k \in DOMAIN comps |-> At(comps[k], i)]

\* the update written to the whole column instead of slot i
MergeWholeColumn(comps, i, res) ==
    [k \in DOMAIN comps |->
        IF k \in DOMAIN res THEN [n \in 1..Len(comps[k]) |-> res[k]]
        ELSE comps[k]]

\* a column made for a returned key that names no component
MergeCreating(comps, i, res) ==
    [k \in DOMAIN comps \cup DOMAIN res |->
        IF k \notin DOMAIN res THEN comps[k]
        ELSE IF k \in DOMAIN comps THEN [comps[k] EXCEPT ![i + 1] = res[k]]
        ELSE <<res[k]>>]

\* for (const key in res) { if (!this.components[key]) continue;
\*                          this.components[key][i] = res[key]; }
Merge(comps, i, res) ==
    [k \in DOMAIN comps |->
        IF k \in DOMAIN res THEN [comps[k] EXCEPT ![i + 1] = res[k]]
        ELSE comps[k]]

\* the returned record taken for the whole row: every key of the store is
\* assigned res[key], also when there is no res
ApplyResultAsRow(comps, i, res) ==
    [k \in DOMAIN comps |-> [comps[k] EXCEPT ![i + 1] = Get(res.upd, k)]]

\* if (!res) continue; otherwise the merge of res
ApplyResult(comps, i, res) ==
    IF res.isNull THEN comps ELSE Merge(comps, i, res.upd)

\* the j loop over Object.values(this.systems) for entity i; obj is the
\* snapshot taken before the loop
RECURSIVE SystemLoop(_, _, _, _, _)
SystemLoop(st, obj, sys, i, j) ==
    IF j > Len(sys) THEN st
    ELSE LET res == CallSystem(sys[j].fn, obj)
             log2 == Append(st.log, [entity |-> i, sys |-> sys[j].id,
                                     input |-> obj, res |-> res])
         IN  SystemLoop([comps |-> ApplyResult(st.comps, i, res),
                         log |-> log2], obj, sys, i, j + 1)

\* the body of the i loop: snapshot, then every system
EntityPass(st, sys, i) == SystemLoop(st, Snapshot(st.comps, i), sys, i, 1)

\* the i loop, i < limit
RECURSIVE EntityLoop(_, _, _, _)
EntityLoop(st, sys, i, limit) ==
    IF i >= limit THEN st
    ELSE EntityLoop(EntityPass(st, sys, i), sys, i + 1, limit)

\* the two loops nested the other way round: for each system, every entity
RECURSIVE EntitiesOfSystem(_, _, _, _, _)
EntitiesOfSystem(st, sys, j, i, limit) ==
    IF i >= limit THEN st
    ELSE LET obj == Snapshot(st.comps, i)
             res == CallSystem(sys[j].fn, obj)
         IN  EntitiesOfSystem(
                 [comps |-> ApplyResult(st.comps, i, res),
                  log |-> Append(st.log, [entity |-> i, sys |-> sys[j].id,
                                          input |-> obj, res |-> res])],
                 sys, j, i + 1, limit)

RECURSIVE SystemMajorLoop(_, _, _, _)
SystemMajorLoop(st, sys, j, limit) ==
    IF j > Len(sys) THEN st
    ELSE SystemMajorLoop(EntitiesOfSystem(st, sys, j, 0, limit), sys, j + 1,
                         limit)

RunSystemsSystemMajor(comps, sys) ==
    SystemMajorLoop([comps |-> comps, log |-> <<>>], sys, 1,
                    Len(comps["uid"]))

RunSystemsResult(comps, sys) ==
    EntityLoop([comps |-> comps, log |-> <<>>], sys, 0, Len(comps["uid"]))

\* ------------------------------------------------------------ addEntity
AddEntityColumns(comps, dflts, vals) ==
    [k \in DOMAIN comps |->
        IF k = "uid" THEN Append(comps[k], Len(comps[k]))
        ELSE Append(comps[k], Coalesce(Get(vals, k), Get(dflts, k)))]

\* the length returned instead of the last index
NewEntityIdLength(comps) == Len(comps["uid"])

\* return this.components.uid.length - 1, on the columns after the pushes
NewEntityId(comps) == Len(comps["uid"]) - 1

\* ---------------------------------------------------------- addComponent
\* the existence test taken for a test of a non-empty column
ComponentExistsNonEmpty(comps, name) ==
    name \in DOMAIN comps /\ Len(comps[name]) > 0

ComponentExists(comps, name) == name \in DOMAIN comps

\* a new column that is not backfilled
NewColumnEmpty(comps, fillValue) == <<>>

NewColumn(comps, fillValue) == [i \in 1..Len(comps["uid"]) |-> fillValue]

WithColumn(comps, name, column) ==
    [k \in DOMAIN comps \cup {name} |-> IF k = name THEN column ELSE comps[k]]

\* a default already recorded for the name is kept
WithDefaultKeepOld(dflts, name, defaultValue) ==
    [k \in DOMAIN dflts \cup {name} |->
        IF k \in DOMAIN dflts THEN dflts[k] ELSE defaultValue]

WithDefault(dflts, name, defaultValue) ==
    [k \in DOMAIN dflts \cup {name} |->
        IF k = name THEN defaultValue ELSE dflts[k]]

\* -------------------------------------------------------- removeComponent
WithoutColumn(comps, name) == [k \in DOMAIN comps \ {name} |-> comps[k]]

\* --------------------------------------------------------------- getById
GetByIdResult(comps, uid) ==
    IF Len(comps["uid"]) <= uid THEN EmptyRecord
    ELSE [k \in DOMAIN comps |-> At(comps[k], uid)]

\* ------------------------------------------------------------ the store
\* no call made on the GL layer
NoGlInput ==
    [kind |-> "none", container |-> EmptyRecord, buffers |-> 0,
     locations |-> {}, shaders |-> EmptyRecord, vao |-> FALSE,
     attributes |-> <<>>]

GlIdle ==
    /\ glCalls = <<>>
    /\ glConsole = <<>>
    /\ glLast = [op |-> "new", ret |-> Undefined, threw |-> FALSE]
    /\ glCreated = 0
    /\ glPending = 0
    /\ glFrames = 0

InitOutsideGl ==
    /\ components = [k \in {"uid"} |-> <<>>]
    /\ componentDefaults = [k \in {"uid"} |-> Null]
    /\ systems = <<>>
    /\ nextSystemId = 0
    /\ last = NoCall
    /\ issuedIds = <<>>
    /\ isReady = FALSE
    /\ inbox = <<>>
    /\ pendingInits = <<>>
    /\ initCalls = <<>>
    /\ entrypointCalls = <<>>
    /\ initFailures = 0
    /\ engineCount = 0
    /\ contextCalls = 0
    /\ frameQueue = <<>>
    /\ ticks = <<>>
    /\ passes = <<>>
    /\ consoleLog = <<>>
    /\ renderErrors = <<>>
    /\ received = <<>>
    /\ listeners = <<>>
    /\ connState = <<>>
    /\ domEvents = <<>>
    /\ posted = <<>>
    /\ delivered = 0
    /\ canvasMode = "element"
    /\ handleHolders = {}
    /\ mainLast = [op |-> "none", err |-> ""]
    /\ activeCamera = Undefined
    /\ passCount = 0
    /\ drawCalls = <<>>
    /\ lastMesh = [input |-> <<>>, given |-> FALSE, positions |-> <<>>,
                   normals |-> <<>>]
    /\ createdBy = <<>>

Init == InitOutsideGl /\ glInput = NoGlInput /\ GlIdle

\* every access to this.components.uid.length throws once uid is deleted
UidMissing == "uid" \notin DOMAIN components

RunSystems ==
    /\ IF UidMissing
       THEN /\ last' = [NoCall EXCEPT !.op = "runSystems", !.err = "TypeError"]
            /\ UNCHANGED components
       ELSE LET r == RunSystemsResult(components, systems)
            IN  /\ components' = r.comps
                /\ last' = [NoCall EXCEPT !.op = "runSystems", !.log = r.log]
    /\ UNCHANGED <<componentDefaults, systems, nextSystemId, issuedIds>>

AddSystem(fn) ==
    /\ systems' = Append(systems, [id |-> nextSystemId, fn |-> fn])
    /\ nextSystemId' = nextSystemId + 1
    /\ last' = [NoCall EXCEPT !.op = "addSystem", !.fn = fn,
                              !.retId = nextSystemId]
    /\ UNCHANGED <<components, componentDefaults, issuedIds>>

RemoveSystem(id) ==
    /\ systems' = SelectSeq(systems, LAMBDA s : s.id # id)
    /\ last' = [NoCall EXCEPT !.op = "removeSystem", !.id = id]
    /\ UNCHANGED <<components, componentDefaults, nextSystemId, issuedIds>>

GetById(uid) ==
    /\ last' = IF UidMissing
               THEN [NoCall EXCEPT !.op = "getById", !.id = uid,
                                   !.err = "TypeError"]
               ELSE [NoCall EXCEPT !.op = "getById", !.id = uid,
                                   !.retObj = GetByIdResult(components, uid)]
    /\ UNCHANGED <<components, componentDefaults, systems, nextSystemId,
                   issuedIds>>

AddEntity(vals) ==
    /\ components' = AddEntityColumns(components, componentDefaults, vals)
    /\ IF UidMissing
       THEN /\ last' = [NoCall EXCEPT !.op = "addEntity", !.vals = vals,
                                      !.err = "TypeError"]
            /\ UNCHANGED issuedIds
       ELSE /\ last' = [NoCall EXCEPT !.op = "addEntity", !.vals = vals,
                                      !.retId = NewEntityId(components')]
            /\ issuedIds' = Append(issuedIds, NewEntityId(components'))
    /\ UNCHANGED <<componentDefaults, systems, nextSystemId>>

AddComponent(name, fillValue, defaultValue) ==
    LET call == [NoCall EXCEPT !.op = "addComponent", !.name = name,
                               !.fill = fillValue, !.dflt = defaultValue,
                               !.prev = Get(componentDefaults, name)]
    IN  /\ IF ComponentExists(components, name)
           THEN /\ last' = [call EXCEPT !.err = "Component already exists"]
                /\ UNCHANGED <<components, componentDefaults>>
           ELSE IF UidMissing
           THEN /\ last' = [call EXCEPT !.err = "TypeError"]
                /\ UNCHANGED <<components, componentDefaults>>
           ELSE /\ components' =
                      WithColumn(components, name,
                                 NewColumn(components, fillValue))
                /\ componentDefaults' =
                      WithDefault(componentDefaults, name, defaultValue)
                /\ last' = call
        /\ UNCHANGED <<systems, nextSystemId, issuedIds>>

RemoveComponent(name) ==
    /\ components' = WithoutColumn(components, name)
    /\ last' = [NoCall EXCEPT !.op = "removeComponent", !.name = name]
    /\ UNCHANGED <<componentDefaults, systems, nextSystemId, issuedIds>>

\* ------------------------------------------------- the worker bootstrap
\* A bootstrap message is event.data = [module, workerId, memory, entryPtr];
\* index i of the source is position i + 1.
WasmModules == {"wasm"}
WorkerIds == {0, 1}
Memories == {"mem"}
EntryPtrs == {"entryA", "entryB"}
BootstrapMessages == WasmModules \X WorkerIds \X Memories \X EntryPtrs

\* the flag after `isReady = true`
MarkReadyKept(flag) == flag
MarkReady(flag) == TRUE

\* the sequence s without its i-th element
RemoveAt(s, i) == SubSeq(s, 1, i - 1) \o SubSeq(s, i + 1, Len(s))

\* onmessage up to its await: a set flag returns at once; otherwise the flag
\* is set and initialization is started with the message's module and memory
OnMessage(event) ==
    /\ inbox' = Append(inbox, event)
    /\ IF isReady
       THEN UNCHANGED <<isReady, pendingInits, initCalls>>
       ELSE /\ isReady' = MarkReady(isReady)
            /\ initCalls' = Append(initCalls, <<event[1], event[3]>>)
            /\ pendingInits' = Append(pendingInits, event)
    /\ UNCHANGED <<entrypointCalls, initFailures>>

\* the awaited initialization is fulfilled: the handler resumes and calls
\* worker_entrypoint with the entry pointer of its own message
InitResolves(i) ==
    /\ i \in 1..Len(pendingInits)
    /\ entrypointCalls' = Append(entrypointCalls, pendingInits[i][4])
    /\ pendingInits' = RemoveAt(pendingInits, i)
    /\ UNCHANGED <<isReady, inbox, initCalls, initFailures>>

\* a rejected initialization that clears the flag again
InitRejectsAndResets(i) ==
    /\ i \in 1..Len(pendingInits)
    /\ initFailures' = initFailures + 1
    /\ pendingInits' = RemoveAt(pendingInits, i)
    /\ isReady' = FALSE
    /\ UNCHANGED <<inbox, initCalls, entrypointCalls>>

\* the awaited initialization is rejected: the await throws and the handler
\* ends without reaching worker_entrypoint
InitRejects(i) ==
    /\ i \in 1..Len(pendingInits)
    /\ initFailures' = initFailures + 1
    /\ pendingInits' = RemoveAt(pendingInits, i)
    /\ UNCHANGED <<isReady, inbox, initCalls, entrypointCalls>>

\* ------------------------------------------------ the message protocol
MessageType == [domEvent |-> 0, custom |-> 1, attachCanvas |-> 2]
EventTypes ==
    [pointermove |-> 0, pointerdown |-> 1, pointerup |-> 2, keydown |-> 3,
     keyup |-> 4, onWheel |-> 5]

\* msg.data as the handler sees it: its type, and its elements if an array
ArrayData(items) == [type |-> "array", items |-> items]
OtherData(type) == [type |-> type, items |-> <<>>]

\* ------------------------------------------------ the rendering context
\* raf(): requestAnimationFrame registers one callback, for the next frame
ScheduleTwice(queue, s) == Append(Append(queue, s), s)
Schedule(queue, s) == Append(queue, s)

\* the switch on data[0]: the one case, MessageType.attachCanvas
IsAttachOrUnknown(items) ==
    items[1] \notin {MessageType.domEvent, MessageType.custom}
IsAttach(items) == items[1] = MessageType.attachCanvas

\* handleConnection(msg).  ctxAvailable: whether the host gives the canvas a
\* webgl2 context.  A throw of the Engine constructor ends the handler.
HandleConnection(data, ctxAvailable) ==
    /\ received' = Append(received, data)
    /\ IF data.type # "array" \/ Len(data.items) = 0
       THEN UNCHANGED <<engineCount, contextCalls, frameQueue, ticks, passes,
                        consoleLog, renderErrors>>
       ELSE IF ~IsAttach(data.items)
       THEN /\ consoleLog' = Append(consoleLog, data.items)
            /\ UNCHANGED <<engineCount, contextCalls, frameQueue, ticks,
                           passes, renderErrors>>
       ELSE IF Len(data.items) < 2
       THEN /\ renderErrors' = Append(renderErrors, "canvas not found")
            /\ UNCHANGED <<engineCount, contextCalls, frameQueue, ticks,
                           passes, consoleLog>>
       ELSE IF ~ctxAvailable
       THEN /\ renderErrors' =
                  Append(renderErrors, "can't get webgl2 context")
            /\ UNCHANGED <<engineCount, contextCalls, frameQueue, ticks,
                           passes, consoleLog>>
       ELSE /\ engineCount' = engineCount + 1
            /\ contextCalls' = contextCalls + 1
            /\ ticks' = Append(ticks, 0)
            /\ passes' = Append(passes, 0)
            /\ frameQueue' = Schedule(frameQueue, engineCount + 1)
            /\ consoleLog' = Append(consoleLog, data.items)
            /\ UNCHANGED renderErrors

\* the host runs the frame callback registered first: one runSystems pass
\* on its scene, then raf()
FrameCallback ==
    /\ frameQueue # <<>>
    /\ LET s == Head(frameQueue)
       IN  /\ ticks' = [ticks EXCEPT ![s] = @ + 1]
           /\ passes' = [passes EXCEPT ![s] = @ + 1]
           /\ frameQueue' = Schedule(Tail(frameQueue), s)
    /\ UNCHANGED <<engineCount, contextCalls, consoleLog, renderErrors,
                   received>>

\* ---------------------------------------------- the orchestrating context
\* DOM events: pointer events carry clientX and clientY, keyboard events key
PointerNames == {"pointermove", "pointerdown", "pointerup"}
KeyNames == {"keydown", "keyup"}
NoEvent == [type |-> "none", clientX |-> Undefined, clientY |-> Undefined,
            key |-> ""]
DomEvents ==
    {[NoEvent EXCEPT !.type = t, !.clientX = x, !.clientY = y] :
        t \in PointerNames, x \in {12}, y \in {34}}
    \cup {[NoEvent EXCEPT !.type = t, !.key = "a"] : t \in KeyNames}
    \cup {[NoEvent EXCEPT !.type = "wheel"]}

\* eventPassers[tag](e): the array the passer posts
EventPasserWrongTag(tag, e) ==
    IF tag \in {EventTypes.pointermove, EventTypes.pointerup,
                EventTypes.pointerdown}
    THEN <<MessageType.domEvent, EventTypes.pointermove, e.clientX,
           e.clientY>>
    ELSE <<MessageType.domEvent, EventTypes.keydown, e.key>>
EventPasserSwapped(tag, e) ==
    IF tag \in {EventTypes.pointermove, EventTypes.pointerup,
                EventTypes.pointerdown}
    THEN <<MessageType.domEvent, tag, e.clientY, e.clientX>>
    ELSE <<MessageType.domEvent, tag, e.key>>
EventPasser(tag, e) ==
    CASE tag = EventTypes.pointermove ->
            <<MessageType.domEvent, EventTypes.pointermove, e.clientX,
              e.clientY>>
      [] tag = EventTypes.pointerup ->
            <<MessageType.domEvent, EventTypes.pointerup, e.clientX,
              e.clientY>>
      [] tag = EventTypes.pointerdown ->
            <<MessageType.domEvent, EventTypes.pointerdown, e.clientX,
              e.clientY>>
      [] tag = EventTypes.keydown ->
            <<MessageType.domEvent, EventTypes.keydown, e.key>>
      [] tag = EventTypes.keyup ->
            <<MessageType.domEvent, EventTypes.keyup, e.key>>
      [] tag = EventTypes.onWheel ->
            <<MessageType.domEvent, EventTypes.onWheel>>

\* the (event name, passer) pairs connectWorker adds to the document, and
\* the pairs its disconnectWorker removes
AddedListeners ==
    <<[name |-> "pointermove", tag |-> EventTypes.pointermove],
      [name |-> "pointerdown", tag |-> EventTypes.pointerdown],
      [name |-> "pointerup", tag |-> EventTypes.pointerup],
      [name |-> "keydown", tag |-> EventTypes.keydown],
      [name |-> "keyup", tag |-> EventTypes.keyup]>>
RemovedListenersButKeyup ==
    {[name |-> "pointermove", tag |-> EventTypes.pointermove],
     [name |-> "pointerdown", tag |-> EventTypes.pointerdown],
     [name |-> "pointerup", tag |-> EventTypes.pointerup],
     [name |-> "keydown", tag |-> EventTypes.keydown]}
RemovedListeners ==
    {[name |-> "pointermove", tag |-> EventTypes.pointermove],
     [name |-> "pointerdown", tag |-> EventTypes.pointerdown],
     [name |-> "pointerup", tag |-> EventTypes.pointerup],
     [name |-> "keydown", tag |-> EventTypes.keydown],
     [name |-> "keyup", tag |-> EventTypes.keyup]}

\* connectWorker(worker): the connection's five listeners are added
ConnectWorker ==
    LET c == Len(connState) + 1
    IN  /\ listeners' = listeners \o
              [i \in 1..Len(AddedListeners) |->
                  [conn |-> c, name |-> AddedListeners[i].name,
                   tag |-> AddedListeners[i].tag]]
        /\ connState' = Append(connState, "connected")
        /\ UNCHANGED <<domEvents, posted, delivered, canvasMode,
                       handleHolders, mainLast>>

\* the disconnectWorker function connection c was given
DisconnectWorker(c) ==
    /\ c \in 1..Len(connState)
    /\ listeners' =
          SelectSeq(listeners,
                    LAMBDA l : ~(l.conn = c /\ [name |-> l.name, tag |-> l.tag]
                                                  \in RemovedListeners))
    /\ connState' = [connState EXCEPT ![c] = "disconnected"]
    /\ UNCHANGED <<domEvents, posted, delivered, canvasMode, handleHolders,
                   mainLast>>

\* the document dispatches e: the listeners for its name run in the order
\* they were added, each posting its passer's array
DispatchEvent(e) ==
    LET hit == SelectSeq(listeners, LAMBDA l : l.name = e.type)
    IN  /\ domEvents' = Append(domEvents, e)
        /\ posted' = posted \o
              [i \in 1..Len(hit) |->
                  [conn |-> hit[i].conn, event |-> e,
                   msg |-> EventPasser(hit[i].tag, e)]]
        /\ UNCHANGED <<listeners, connState, delivered, canvasMode,
                       handleHolders, mainLast>>

\* postMessage(message, [canvasWorker]): the handle leaves the sender
TransferCopies(holders) == holders \cup {"channel"}
Transfer(holders) == (holders \ {"main"}) \cup {"channel"}

\* attachCanvas(worker, canvas).  byId: canvas is given as a string; found:
\* the document has an element with the id "rendering-canvas".
\* transferControlToOffscreen throws on a canvas already transferred.
AttachCanvas(byId, found) ==
    LET call == [op |-> "attachCanvas", err |-> ""]
    IN  IF byId /\ ~found
        THEN /\ mainLast' = [call EXCEPT !.err = "Fatal: Canvas Not Found!"]
             /\ UNCHANGED <<listeners, connState, domEvents, posted,
                            delivered, canvasMode, handleHolders>>
        ELSE IF canvasMode # "element"
        THEN /\ mainLast' = [call EXCEPT !.err = "InvalidStateError"]
             /\ UNCHANGED <<listeners, connState, domEvents, posted,
                            delivered, canvasMode, handleHolders>>
        ELSE /\ canvasMode' = "placeholder"
             /\ handleHolders' = Transfer(handleHolders \cup {"main"})
             /\ posted' = Append(posted,
                   [conn |-> 0, event |-> NoEvent,
                    msg |-> <<MessageType.attachCanvas, "canvas">>])
             /\ mainLast' = call
             /\ UNCHANGED <<listeners, connState, domEvents, delivered>>

\* the worker's onmessage gets the oldest message not yet handled; a
\* transferred handle arrives with it
Deliver(ctxAvailable) ==
    /\ delivered < Len(posted)
    /\ LET m == posted[delivered + 1]
       IN  /\ HandleConnection(ArrayData(m.msg), ctxAvailable)
           /\ handleHolders' =
                 IF m.conn = 0 /\ "channel" \in handleHolders
                 THEN (handleHolders \ {"channel"}) \cup {"render"}
                 ELSE handleHolders
    /\ delivered' = delivered + 1
    /\ UNCHANGED <<listeners, connState, domEvents, posted, canvasMode,
                   mainLast>>

\* ---------------------------------------------------------------- Scene
\* Slots of a Scene hold numbers: a flag is 1 when true, program and vao are
\* handles, attr_pos and attr_normals are written as the length of the
\* array, a matrix as a number naming it.  The name column is left out.
Identity == 0
Perspective == 1
ModelMatrix(t) == 10 + t
Times == {1, 2}
Handles == {1, Undefined}
Truthy(v) == v \notin {Null, Undefined, 0}

\* the columns' defaults after the ten addComponent calls of initECS
SceneDefaults ==
    [uid |-> Null, isMesh |-> Null, isCamera |-> Null, isMaterial |-> Null,
     program |-> Null, vao |-> Null, attr_pos |-> 0, attr_normals |-> 0,
     u_model_matrix |-> Identity, u_projection_matrix |-> Perspective]

\* the values addMaterial hands to addEntity, but for the name
MaterialValues(program, vao) ==
    [isMaterial |-> 1, program |-> program, vao |-> vao]

\* an entry of createdBy
Maker(op, setActive) == [op |-> op, setActive |-> setActive]

\* new Scene(canvas, ctx), with the handles createProgram and setupVAO give:
\* the columns, the default material, applied_material filled with its id,
\* and the one system
NewScene(program, vao) ==
    /\ activeCamera = Undefined
    /\ LET none == [k \in DOMAIN SceneDefaults |-> <<>>]
           made == AddEntityColumns(none, SceneDefaults,
                                    MaterialValues(program, vao))
           defaultMaterial == NewEntityId(made)
       IN  /\ components' = WithColumn(made, "applied_material",
                                       NewColumn(made, defaultMaterial))
           /\ componentDefaults' =
                 WithDefault(SceneDefaults, "applied_material",
                             defaultMaterial)
    /\ systems' = Append(systems, [id |-> nextSystemId, fn |-> "scene"])
    /\ nextSystemId' = nextSystemId + 1
    /\ activeCamera' = -1
    /\ createdBy' = <<Maker("addMaterial", FALSE)>>
    /\ UNCHANGED <<passCount, drawCalls, lastMesh>>

\* addMaterial(name, vs, fs), with the handles createProgram and setupVAO
\* give
AddMaterial(program, vao) ==
    /\ activeCamera # Undefined
    /\ components' = AddEntityColumns(components, componentDefaults,
                                      MaterialValues(program, vao))
    /\ createdBy' = Append(createdBy, Maker("addMaterial", FALSE))
    /\ UNCHANGED <<componentDefaults, systems, nextSystemId, activeCamera,
                   passCount, drawCalls, lastMesh>>

\* render(data): the drawArrays calls it makes
RenderEvery(obj) ==
    IF activeCamera = -1 THEN <<>>
    ELSE <<[mode |-> "TRIANGLES", first |-> 0,
            count |-> Get(obj, "attr_pos") \div 3,
            entity |-> Get(obj, "uid"),
            model |-> Get(obj, "u_model_matrix")]>>
Render(obj) ==
    IF activeCamera = -1 THEN <<>>
    ELSE IF Truthy(Get(obj, "isMesh"))
    THEN <<[mode |-> "TRIANGLES", first |-> 0,
            count |-> Get(obj, "attr_pos") \div 3,
            entity |-> Get(obj, "uid"),
            model |-> Get(obj, "u_model_matrix")]>>
    ELSE <<>>

\* what the system returns after render, at time t
SceneSystemRelink(obj, t) ==
    Update([k \in {"u_model_matrix", "program"} |->
               IF k = "program" THEN 0 ELSE ModelMatrix(t)])
SceneSystem(obj, t) ==
    IF Truthy(Get(obj, "isMesh"))
    THEN Update([k \in {"u_model_matrix"} |-> ModelMatrix(t)])
    ELSE NullResult

\* ecs.runSystems with the one system, from entity i on
RECURSIVE ScenePass(_, _, _, _)
ScenePass(st, i, limit, t) ==
    IF i >= limit THEN st
    ELSE LET obj == Snapshot(st.comps, i)
         IN  ScenePass([comps |-> ApplyResult(st.comps, i,
                                              SceneSystem(obj, t)),
                        draws |-> st.draws \o Render(obj)],
                       i + 1, limit, t)

SceneRunSystems(t) ==
    /\ activeCamera # Undefined
    /\ LET r == ScenePass([comps |-> components, draws |-> <<>>], 0,
                          Len(components["uid"]), t)
       IN  /\ components' = r.comps
           /\ drawCalls' = r.draws
    /\ passCount' = passCount + 1
    /\ UNCHANGED <<componentDefaults, systems, nextSystemId, activeCamera,
                   lastMesh, createdBy>>

\* if (setActive) this.activeCamera = uid
ActiveAlways(setActive, uid, current) == uid
ActiveAfter(setActive, uid, current) == IF setActive THEN uid ELSE current

AddCamera(setActive) ==
    /\ activeCamera # Undefined
    /\ components' =
          AddEntityColumns(components, componentDefaults, EmptyRecord)
    /\ activeCamera' =
          ActiveAfter(setActive, NewEntityId(components'), activeCamera)
    /\ createdBy' = Append(createdBy, Maker("addCamera", setActive))
    /\ UNCHANGED <<componentDefaults, systems, nextSystemId, passCount,
                   drawCalls, lastMesh>>

\* numTris * 9 for a positions array of length n
WholeVertices(n) == (n \div 3) * 3
WholeTriangles(n) == ((n \div 3) \div 3) * 9

\* vec3.cross(out, u, v) and vec3.normalize; a unit vector is written as
\* the shortest integer vector of its direction
CrossReversed(u, v) ==
    <<v[2] * u[3] - v[3] * u[2], v[3] * u[1] - v[1] * u[3],
      v[1] * u[2] - v[2] * u[1]>>
Cross(u, v) ==
    <<u[2] * v[3] - u[3] * v[2], u[3] * v[1] - u[1] * v[3],
      u[1] * v[2] - u[2] * v[1]>>
Abs(x) == IF x < 0 THEN -x ELSE x
Normalize(v) ==
    IF v = <<0, 0, 0>> THEN v
    ELSE LET m == Abs(v[1]) + Abs(v[2]) + Abs(v[3])
             g == CHOOSE d \in 1..m :
                     /\ \A k \in 1..3 : v[k] % d = 0
                     /\ \A d2 \in (d + 1)..m : \E k \in 1..3 : v[k] % d2 # 0
         IN  <<v[1] \div g, v[2] \div g, v[3] \div g>>

\* the normal pushed for triangle i of positions
TriangleNormal(positions, i) ==
    LET a == SubSeq(positions, 9 * i + 1, 9 * i + 3)
        b == SubSeq(positions, 9 * i + 4, 9 * i + 6)
        c == SubSeq(positions, 9 * i + 7, 9 * i + 9)
        e1 == <<b[1] - a[1], b[2] - a[2], b[3] - a[3]>>
        e2 == <<c[1] - a[1], c[2] - a[2], c[3] - a[3]>>
    IN  Normalize(Cross(e2, e1))

\* the normals array the loop over the numTris triangles builds
FlatNormals(positions) ==
    [j \in 1..(9 * ((Len(positions) \div 3) \div 3)) |->
        TriangleNormal(positions, (j - 1) \div 9)[((j - 1) % 3) + 1]]

\* addMesh(name, positions, normals); normals.given: normals is not omitted
AddMesh(positions, normals) ==
    /\ activeCamera # Undefined
    /\ LET cut == SubSeq(positions, 1, WholeTriangles(Len(positions)))
           nrm == IF normals.given THEN normals.list ELSE FlatNormals(cut)
       IN  /\ components' =
                 AddEntityColumns(components, componentDefaults,
                    [attr_pos |-> Len(cut), attr_normals |-> Len(nrm),
                     isMesh |-> 1])
           /\ lastMesh' = [input |-> positions, given |-> normals.given,
                           positions |-> cut, normals |-> nrm]
    /\ createdBy' = Append(createdBy, Maker("addMesh", FALSE))
    /\ UNCHANGED <<componentDefaults, systems, nextSystemId, activeCamera,
                   passCount, drawCalls>>

\* ------------------------------------------------------------ GL layer
\* A call made on the context: fn its name, tag the shader attribute or the
\* semantic it is made for, prim the primitive being imported (counted from
\* 1 over the whole container; 0 outside loadModel), n1..n4 its numbers:
\*   bufferData               n1 elements, n2 bits per element of the typed
\*                            array handed over, n3 = 1 when the array comes
\*                            from createInstanceData
\*   enableVertexAttribArray  n1 location
\*   vertexAttribPointer      n1 location, n2 size, n3 stride, n4 offset
\*   vertexAttribDivisor      n1 location, n2 divisor
\*   useProgram               n1 = 1 for a linked program, 0 for a deleted one
\*   drawElementsInstanced    n1 count, n2 bits per index, n3 offset,
\*                            n4 instances
\* Of the console, error and warn are kept, log is not.
GlCall(fn, tag, prim, n1, n2, n3, n4) ==
    [fn |-> fn, tag |-> tag, prim |-> prim, n1 |-> n1, n2 |-> n2, n3 |-> n3,
     n4 |-> n4]

Said(st, message) == [st EXCEPT !.console = Append(@, message)]
Called(st, calls) == [st EXCEPT !.calls = @ \o calls]

\* gl.getAttribLocation(program, name): -1 when the program has no such
\* attribute
LocationOf(locations, name) ==
    IF name \notin locations THEN -1
    ELSE CASE name = "position" -> 0
           [] name = "normal" -> 1
           [] name = "texcoord_0" -> 2
           [] OTHER -> 3

\* gl.createBuffer(): null once the context has handed out env.buffers
CreateBufferFails(st, env) == st.created >= env.buffers

\* ------------------------------------------------------ processAttribute
\* the byte offset of row i taken for i * stride * 4
RowOffsetTimesFour(i, stride) == i * stride * 4

\* the offset argument of vertexAttribPointer for row i
RowOffset(i, stride) == i * stride

\* for (let i = 0; i < 4; i++) of a matrix attribute
RECURSIVE MatrixRows(_, _, _, _)
MatrixRows(st, attribute, baseLocation, i) ==
    IF i >= 4 THEN st
    ELSE LET location == baseLocation + i
             enabled == Called(st, <<GlCall("enableVertexAttribArray",
                                       attribute.name, 0, location, 0, 0, 0)>>)
         IN  IF location = -1
             THEN Said(enabled, "failed to get attribute location")
             ELSE MatrixRows(
                     Called(enabled,
                        <<GlCall("vertexAttribPointer", attribute.name, 0,
                                 location, 4, attribute.stride * 4,
                                 RowOffset(i, attribute.stride))>>
                        \o (IF attribute.numInstances > 0
                            THEN <<GlCall("vertexAttribDivisor",
                                      attribute.name, 0, location, 1, 0, 0)>>
                            ELSE <<>>)),
                     attribute, baseLocation, i + 1)

ProcessAttribute(st, attribute, env) ==
    LET isMatrix == attribute.stride >= 16
        regenerated == IF attribute.numInstances > 1 THEN 1 ELSE 0
        baseLocation == LocationOf(env.locations, attribute.name)
    IN  IF baseLocation = -1
        THEN Said(st, "failed to get attribute location")
        ELSE IF CreateBufferFails(st, env)
        THEN Said(st, "failed to create buffer")
        ELSE LET up == Called([st EXCEPT !.created = @ + 1],
                          <<GlCall("bufferData", attribute.name, 0, 0, 32,
                                   regenerated, 0)>>)
             IN  IF isMatrix THEN MatrixRows(up, attribute, baseLocation, 0)
                 ELSE Called(up,
                         <<GlCall("enableVertexAttribArray", attribute.name,
                                  0, baseLocation, 0, 0, 0),
                           GlCall("vertexAttribPointer", attribute.name, 0,
                                  baseLocation, attribute.stride,
                                  attribute.stride * 4, 0)>>
                         \o (IF attribute.numInstances > 1
                             THEN <<GlCall("vertexAttribDivisor",
                                       attribute.name, 0, baseLocation, 1,
                                       0, 0)>>
                             ELSE <<>>))

\* ------------------------------------------------------------- loadModel
\* An accessor with what loadModel reads of it and of its buffer view:
\* hasView is accessor.bufferView !== undefined, byteOffset the byteOffset
\* of that view (Undefined when the view declares none), and componentType
\* the declared type of the components.  A primitive holds the accessors its
\* attributes and indices name.
Accessor(hasView, byteOffset, type, count, componentType) ==
    [hasView |-> hasView, byteOffset |-> byteOffset, type |-> type,
     count |-> count, componentType |-> componentType]

Semantics == <<"POSITION", "NORMAL", "TEXCOORD_0">>

AttributeName(attr) ==
    CASE attr = "POSITION" -> "position"
      [] attr = "NORMAL" -> "normal"
      [] attr = "TEXCOORD_0" -> "texcoord_0"

\* the switch on accessor.type; 0 stands for the default branch
ComponentsPerVertex(type) ==
    CASE type = "SCALAR" -> 1
      [] type = "VEC2" -> 2
      [] type = "VEC3" -> 3
      [] type = "VEC4" -> 4
      [] OTHER -> 0

\* for (const attr of attributeOrder) of primitive p; st.threw is the
\* TypeError of reading bufferView of accessors[undefined], st.returned the
\* return out of the primitive's callback
RECURSIVE AttributeLoop(_, _, _, _, _)
AttributeLoop(st, primitive, p, env, k) ==
    IF k > Len(Semantics) THEN st
    ELSE LET attr == Semantics[k]
             Rest(s) == AttributeLoop(s, primitive, p, env, k + 1)
         IN  IF attr \notin DOMAIN primitive.attributes
             THEN [st EXCEPT !.threw = TRUE]
             ELSE LET accessor == primitive.attributes[attr]
                      size == ComponentsPerVertex(accessor.type)
                      length == accessor.count
                                   * (IF attr = "TEXCOORD_0" THEN 2 ELSE 3)
                      location ==
                         LocationOf(env.locations, AttributeName(attr))
                      up == Called([st EXCEPT !.created = @ + 1],
                               <<GlCall("bufferData", attr, p, length, 32,
                                        0, 0)>>)
                  IN  IF ~accessor.hasView
                      THEN Rest(Said(st, "no buffer index found for accessor"))
                      ELSE IF size = 0
                      THEN Rest(Said(st, "unknown type"))
                      ELSE IF CreateBufferFails(st, env)
                      THEN [Said(st, "failed to create buffer")
                               EXCEPT !.returned = TRUE]
                      ELSE IF location = -1
                      THEN Rest(Said(up, "failed to get attribute location"))
                      ELSE Rest(Called(up,
                              <<GlCall("enableVertexAttribArray", attr, p,
                                       location, 0, 0, 0),
                                GlCall("vertexAttribPointer", attr, p,
                                       location, size, 0, 0)>>))

\* the index accessor of primitive p: new Uint16Array(dataBuffer, offset,
\* accessor.count) whatever accessor.componentType says
IndexUpload(st, primitive, p, env) ==
    IF ~primitive.hasIndices THEN st
    ELSE LET accessor == primitive.indices
         IN  IF ~accessor.hasView
             THEN Said(st, "no buffer index found for indices")
             ELSE IF accessor.byteOffset = Undefined
             THEN Said(st, "no offset found for indices")
             ELSE IF CreateBufferFails(st, env)
             THEN Said(st, "failed to create index buffer")
             ELSE [Called(st, <<GlCall("bufferData", "INDEX", p,
                                       accessor.count, 16, 0, 0)>>)
                      EXCEPT !.created = @ + 1,
                             !.indexCount = accessor.count]

\* the callback of mesh.primitives.forEach
ImportPrimitive(st, primitive, env) ==
    LET p == st.prim + 1
        a == AttributeLoop([st EXCEPT !.prim = p, !.returned = FALSE],
                           primitive, p, env, 1)
    IN  IF a.threw \/ a.returned THEN a ELSE IndexUpload(a, primitive, p, env)

\* mesh.primitives.forEach and gltfData.meshes.forEach; an exception ends both
RECURSIVE PrimitiveLoop(_, _, _, _)
PrimitiveLoop(st, primitives, env, j) ==
    IF j > Len(primitives) \/ st.threw THEN st
    ELSE PrimitiveLoop(ImportPrimitive(st, primitives[j], env), primitives,
                       env, j + 1)

RECURSIVE MeshLoop(_, _, _, _)
MeshLoop(st, meshes, env, m) ==
    IF m > Len(meshes) \/ st.threw THEN st
    ELSE MeshLoop(PrimitiveLoop(st, meshes[m], env, 1), meshes, env, m + 1)

\* loadModel on a context in state st (its calls, console and buffers so
\* far): ret is what the promise is fulfilled with, threw that it is rejected
LoadModel(st, container, env) ==
    IF ~container.meshes \/ ~container.bufferViews \/ ~container.accessors
    THEN [st EXCEPT !.ret = Undefined]
    ELSE LET done == MeshLoop([st EXCEPT !.indexCount = 0], container.list,
                              env, 1)
         IN  [done EXCEPT !.ret = IF done.threw THEN Undefined
                                  ELSE done.indexCount]

\* a context on which nothing has been done but creating `created` buffers
FreshContext(created) ==
    [calls |-> <<>>, console |-> <<>>, created |-> created, indexCount |-> 0,
     prim |-> 0, threw |-> FALSE, returned |-> FALSE, ret |-> Undefined,
     looping |-> FALSE]

\* ------------------------------------------------- setupProgram and draw
\* What the context answers while a program is set up: program, whether
\* createProgram gives a handle; vs and fs, for each shader "null" when
\* createShader gives no handle, "failed" when it does not compile and
\* "compiled" when it does; link, whether the driver can link two compiled
\* shaders.
\*
\* createShader: undefined without a handle, otherwise the shader, which
\* after a failed compilation is logged and deleted but still returned
CreateShader(st, outcome) ==
    IF outcome = "null" THEN [st |-> st, shader |-> FALSE]
    ELSE IF outcome = "failed"
    THEN [st |-> Said(st, "shader info log"), shader |-> TRUE]
    ELSE [st |-> st, shader |-> TRUE]

\* LINK_STATUS: a program links when both shaders are compiled and the
\* driver links them
Linked(shaders) ==
    shaders.vs = "compiled" /\ shaders.fs = "compiled" /\ shaders.link

\* setupProgram: program is whether a handle is returned
SetupProgram(st, shaders) ==
    IF ~shaders.program THEN [st |-> st, program |-> FALSE]
    ELSE LET v == CreateShader(st, shaders.vs)
             f == CreateShader(v.st, shaders.fs)
         IN  IF ~v.shader THEN [st |-> v.st, program |-> FALSE]
             ELSE IF ~f.shader THEN [st |-> f.st, program |-> FALSE]
             ELSE IF ~Linked(shaders)
             THEN [st |-> Said(f.st, "program info log"), program |-> TRUE]
             ELSE [st |-> f.st, program |-> TRUE]

\* for (const attribute of programData.attributes) processAttribute(...)
RECURSIVE ProcessAttributes(_, _, _, _)
ProcessAttributes(st, attributes, env, k) ==
    IF k > Len(attributes) THEN st
    ELSE ProcessAttributes(ProcessAttribute(st, attributes[k], env),
                           attributes, env, k + 1)

\* render: the attributes, the draw call, and the request of the next frame
RenderFrame(st, attributes, env) ==
    [Called(ProcessAttributes(st, attributes, env, 1),
            <<GlCall("drawElementsInstanced", "", 0, 36, 16, 0, 3)>>)
        EXCEPT !.looping = TRUE]

\* draw: looping is whether render has been called
Draw(st, input) ==
    LET env == [buffers |-> input.buffers, locations |-> input.locations]
        setup == SetupProgram(st, input.shaders)
        used == Called(setup.st,
                   <<GlCall("useProgram", "", 0,
                            IF Linked(input.shaders) THEN 1 ELSE 0, 0, 0,
                            0)>>)
        loaded == LoadModel(used, input.container, env)
    IN  IF ~setup.program THEN Said(setup.st, "failed to setup program")
        ELSE IF ~input.vao
        THEN Said(used, "failed to create vertex array object")
        ELSE IF loaded.threw THEN loaded
        ELSE IF loaded.ret \in {0, Undefined}
        THEN Said(loaded, "failed to load model")
        ELSE RenderFrame(loaded, input.attributes, env)

\* what a call leaves behind on the context
Finished(op, r) ==
    /\ glCalls' = r.calls
    /\ glConsole' = r.console
    /\ glCreated' = r.created
    /\ glLast' = [op |-> op, ret |-> r.ret, threw |-> r.threw]
    /\ glPending' = IF r.looping THEN 1 ELSE 0
    /\ glFrames' = IF r.looping THEN glFrames + 1 ELSE glFrames
    /\ UNCHANGED glInput

EnvOf(input) == [buffers |-> input.buffers, locations |-> input.locations]

LoadModelCall ==
    /\ glInput.kind = "load"
    /\ glLast.op = "new"
    /\ Finished("loadModel",
                LoadModel(FreshContext(0), glInput.container, EnvOf(glInput)))

ProcessAttributeCall ==
    /\ glInput.kind = "attribute"
    /\ glLast.op = "new"
    /\ Finished("processAttribute",
                ProcessAttribute(FreshContext(0), glInput.attributes[1],
                                 EnvOf(glInput)))

DrawCall ==
    /\ glInput.kind = "draw"
    /\ glLast.op = "new"
    /\ Finished("draw", Draw(FreshContext(0), glInput))

\* the callback render handed to requestAnimationFrame
AnimationFrame ==
    /\ glPending > 0
    /\ Finished("render",
                RenderFrame([FreshContext(glCreated)
                                EXCEPT !.calls = glCalls,
                                       !.console = glConsole],
                            glInput.attributes, EnvOf(glInput)))

\* ------------------------------------------------------- specifications
\* no column has reached n slots yet
RoomFor(n) == \A k \in DOMAIN components : Len(components[k]) < n

\* Spec: every operation of the store, on the built-in uid column and one
\* user column "x"; callers may also pass values for names never registered.
StoreNames == {"uid", "x"}
StoreInitialValues == UNION {[D -> Values] : D \in SUBSET StoreNames}

Next ==
    \/ RunSystems /\ UNCHANGED outsideEcs
    \/ \E fn \in SystemFns :
          nextSystemId < MaxSystemAdds /\ AddSystem(fn) /\ UNCHANGED outsideEcs
    \/ \E id \in 0..(MaxSystemAdds - 1) :
          RemoveSystem(id) /\ UNCHANGED outsideEcs
    \/ \E uid \in -1..(MaxEntities + 1) : GetById(uid) /\ UNCHANGED outsideEcs
    \/ \E vals \in StoreInitialValues :
          RoomFor(MaxEntities) /\ AddEntity(vals) /\ UNCHANGED outsideEcs
    \/ \E name \in StoreNames, fillValue \in Values, defaultValue \in Values :
          AddComponent(name, fillValue, defaultValue) /\ UNCHANGED outsideEcs
    \/ \E name \in StoreNames : RemoveComponent(name) /\ UNCHANGED outsideEcs

Spec == Init /\ [][Next]_vars

\* PassSpec: stores with the two user columns "x" and "y" and up to
\* MaxPassSystemAdds systems, for the claims about one runSystems pass.
PassInitialValues == {EmptyRecord} \cup [{"x"} -> DataValues]

PassNext ==
    \/ RunSystems /\ UNCHANGED outsideEcs
    \/ \E fn \in SystemFns :
          /\ nextSystemId < MaxPassSystemAdds
          /\ AddSystem(fn)
          /\ UNCHANGED outsideEcs
    \/ \E id \in 0..(MaxPassSystemAdds - 1) :
          RemoveSystem(id) /\ UNCHANGED outsideEcs
    \/ \E vals \in PassInitialValues :
          RoomFor(MaxPassEntities) /\ AddEntity(vals) /\ UNCHANGED outsideEcs
    \/ \E name \in UserNames : AddComponent(name, 0, 0) /\ UNCHANGED outsideEcs

PassSpec == Init /\ [][PassNext]_vars

\* UidSpec: stores that keep their uid column, with systems that may return
\* an update for uid ("resetUid": {uid: 0} for every entity but entity 0).
UidSystemFns == {"raiseX", "resetUid"}

UidNext ==
    \/ RunSystems /\ UNCHANGED outsideEcs
    \/ \E fn \in UidSystemFns :
          nextSystemId < MaxSystemAdds /\ AddSystem(fn) /\ UNCHANGED outsideEcs
    \/ \E vals \in StoreInitialValues :
          RoomFor(MaxEntities) /\ AddEntity(vals) /\ UNCHANGED outsideEcs
    \/ \E name \in StoreNames, fillValue \in Values, defaultValue \in Values :
          AddComponent(name, fillValue, defaultValue) /\ UNCHANGED outsideEcs

UidSpec == Init /\ [][UidNext]_vars

\* WorkerSpec: one render worker receiving up to MaxMessages bootstrap
\* messages, each initialization ending fulfilled, rejected or not at all.
WorkerNext ==
    \/ \E event \in BootstrapMessages :
          Len(inbox) < MaxMessages /\ OnMessage(event) /\ UNCHANGED outsideWorker
    \/ \E i \in 1..MaxMessages : InitResolves(i) /\ UNCHANGED outsideWorker
    \/ \E i \in 1..MaxMessages : InitRejects(i) /\ UNCHANGED outsideWorker

WorkerSpec == Init /\ [][WorkerNext]_vars

\* RenderSpec: the rendering context handling up to MaxHandled messages of
\* any shape and running up to MaxTicks frame callbacks.
ReceivedData ==
    {OtherData("string"), OtherData("object"), ArrayData(<<>>),
     ArrayData(<<7>>), ArrayData(<<7, "canvas">>),
     ArrayData(<<MessageType.custom, "payload">>),
     ArrayData(<<MessageType.domEvent, EventTypes.pointermove, 12, 34>>),
     ArrayData(<<MessageType.domEvent, EventTypes.keydown, "a">>),
     ArrayData(<<MessageType.attachCanvas>>),
     ArrayData(<<MessageType.attachCanvas, "canvas">>)}

RenderNext ==
    \/ \E data \in ReceivedData, ctxAvailable \in BOOLEAN :
          /\ Len(received) < MaxHandled
          /\ HandleConnection(data, ctxAvailable)
          /\ UNCHANGED outsideRender
    \/ /\ \A s \in 1..Len(ticks) : ticks[s] < MaxTicks
       /\ FrameCallback
       /\ UNCHANGED outsideRender

RenderSpec == Init /\ [][RenderNext]_vars

\* ConnSpec: the orchestrating context making up to MaxConnections
\* connections, dispatching up to MaxDomEvents events and attaching the
\* canvas, and the worker handling what is posted.
ConnNext ==
    \/ /\ Len(connState) < MaxConnections
       /\ ConnectWorker
       /\ UNCHANGED <<outsideConnection, renderVars>>
    \/ \E c \in 1..MaxConnections :
          DisconnectWorker(c) /\ UNCHANGED <<outsideConnection, renderVars>>
    \/ \E e \in DomEvents :
          /\ Len(domEvents) < MaxDomEvents
          /\ DispatchEvent(e)
          /\ UNCHANGED <<outsideConnection, renderVars>>
    \/ \E byId \in BOOLEAN, found \in BOOLEAN :
          AttachCanvas(byId, found) /\ UNCHANGED <<outsideConnection, renderVars>>
    \/ \E ctxAvailable \in BOOLEAN :
          Deliver(ctxAvailable) /\ UNCHANGED outsideConnection

ConnSpec == Init /\ [][ConnNext]_vars

\* positions arrays: up to maxV vertices taken from points, then up to two
\* more numbers
PositionLists(points, maxV) ==
    {[j \in 1..(3 * Len(vs)) |-> vs[((j - 1) \div 3) + 1][((j - 1) % 3) + 1]]
        \o extra :
        vs \in UNION {[1..n -> points] : n \in 0..maxV},
        extra \in {<<>>, <<0>>, <<0, 0>>}}
NormalsArguments ==
    {[given |-> FALSE, list |-> <<>>], [given |-> TRUE, list |-> <<>>],
     [given |-> TRUE, list |-> <<0, 0, 1>>]}

\* SceneSpec: one Scene with up to MaxSceneEntities entities and up to
\* MaxPasses passes.
SceneNext ==
    \/ \E handle \in Handles :
          NewScene(handle, handle) /\ UNCHANGED outsideScene
    \/ \E t \in Times :
          passCount < MaxPasses /\ SceneRunSystems(t) /\ UNCHANGED outsideScene
    \/ /\ RoomFor(MaxSceneEntities)
       /\ \E setActive \in BOOLEAN : AddCamera(setActive)
       /\ UNCHANGED outsideScene
    \/ /\ RoomFor(MaxSceneEntities)
       /\ \E handle \in Handles : AddMaterial(handle, handle)
       /\ UNCHANGED outsideScene
    \/ /\ RoomFor(MaxSceneEntities)
       /\ \E positions \in PositionLists({<<1, -1, 1>>}, MaxSceneVertices),
             normals \in NormalsArguments : AddMesh(positions, normals)
       /\ UNCHANGED outsideScene

SceneSpec == Init /\ [][SceneNext]_vars

\* MeshSpec: a Scene given one mesh of up to MaxVertices vertices, among
\* them those of the first triangle of cubeVertices.
Points == {<<1, -1, 1>>, <<-1, -1, 1>>, <<-1, 1, 1>>, <<0, 0, 0>>}

MeshNext ==
    \/ NewScene(1, 1) /\ UNCHANGED outsideScene
    \/ /\ RoomFor(2)
       /\ \E positions \in PositionLists(Points, MaxVertices),
             normals \in NormalsArguments : AddMesh(positions, normals)
       /\ UNCHANGED outsideScene

MeshSpec == Init /\ [][MeshNext]_vars

\* GlSpec: one call of loadModel, of processAttribute or of draw, on a
\* container of up to MaxPrimitives primitives and a context that hands out
\* up to MaxBuffers buffers, and after draw up to MaxGlFrames runs of render.
Primitives ==
    LET AllAttributes ==
           [a \in {"POSITION", "NORMAL", "TEXCOORD_0"} |->
               Accessor(TRUE, 0, IF a = "TEXCOORD_0" THEN "VEC2" ELSE "VEC3",
                        3, "FLOAT")]
        AttributeSets ==
           {AllAttributes,
            [a \in {"POSITION", "NORMAL"} |-> AllAttributes[a]],
            [AllAttributes EXCEPT !["NORMAL"].hasView = FALSE],
            [AllAttributes EXCEPT !["TEXCOORD_0"].type = "MAT4"]}
        ShortIndices == Accessor(TRUE, 8, "SCALAR", 3, "UNSIGNED_SHORT")
        IndexAccessors ==
           {ShortIndices,
            Accessor(TRUE, 8, "SCALAR", 6, "UNSIGNED_INT"),
            Accessor(TRUE, Undefined, "SCALAR", 9, "UNSIGNED_SHORT"),
            Accessor(FALSE, Undefined, "SCALAR", 12, "UNSIGNED_SHORT")}
        Primitive(attributes, hasIndices, indices) ==
           [attributes |-> attributes, hasIndices |-> hasIndices,
            indices |-> indices]
    IN  {Primitive(AllAttributes, TRUE, i) : i \in IndexAccessors}
           \cup {Primitive(a, TRUE, ShortIndices) : a \in AttributeSets}
           \cup {Primitive(AllAttributes, FALSE, ShortIndices)}

Sections == {"meshes", "bufferViews", "accessors"}
Container(sections, list) ==
    [meshes |-> "meshes" \in sections,
     bufferViews |-> "bufferViews" \in sections,
     accessors |-> "accessors" \in sections, list |-> list]
\* the primitives in one mesh, or each in a mesh of its own
MeshLists(maxP) ==
    {<<>>} \cup
    UNION {UNION {{<<l>>, [i \in 1..m |-> <<l[i]>>]} :
                     l \in [1..m -> Primitives]} : m \in 1..maxP}
Containers ==
    {Container(Sections, list) : list \in MeshLists(MaxPrimitives)}
       \cup {Container(s, <<<<p>>>>) : s \in SUBSET Sections, p \in Primitives}

GlInputs ==
    LET AllLocations == {"position", "normal", "texcoord_0", "model"}
        LocationSets == {AllLocations, {"position", "normal"}}
        Attributes == [name : {"model"}, stride : {3, 16},
                       numInstances : 0..2]
        Shaders ==
           [program : BOOLEAN, vs : {"null", "failed", "compiled"},
            fs : {"null", "failed", "compiled"}, link : BOOLEAN]
        NoShaders ==
           [program |-> FALSE, vs |-> "null", fs |-> "null", link |-> FALSE]
    IN  {[kind |-> "load", container |-> c, buffers |-> b, locations |-> l,
          shaders |-> NoShaders, vao |-> FALSE, attributes |-> <<>>] :
            c \in Containers, b \in 0..MaxBuffers, l \in LocationSets}
        \cup
        {[kind |-> "attribute", container |-> Container({}, <<>>),
          buffers |-> b, locations |-> l, shaders |-> NoShaders,
          vao |-> FALSE, attributes |-> <<a>>] :
            a \in Attributes, b \in 0..1, l \in LocationSets}
        \cup
        {[kind |-> "draw", container |-> Container(s, <<<<p>>>>),
          buffers |-> b, locations |-> AllLocations, shaders |-> sh,
          vao |-> v, attributes |-> a] :
            s \in {Sections, {"meshes"}}, p \in Primitives,
            b \in {0, MaxBuffers}, sh \in Shaders, v \in BOOLEAN,
            a \in {<<>>, <<[name |-> "model", stride |-> 16,
                            numInstances |-> 2]>>}}

GlInit == InitOutsideGl /\ GlIdle /\ glInput \in GlInputs

GlNext ==
    \/ LoadModelCall /\ UNCHANGED outsideGl
    \/ ProcessAttributeCall /\ UNCHANGED outsideGl
    \/ DrawCall /\ UNCHANGED outsideGl
    \/ glFrames < MaxGlFrames /\ AnimationFrame /\ UNCHANGED outsideGl

GlSpec == GlInit /\ [][GlNext]_vars

\* ------------------------------------------------------------- the claims
EntityCount == Len(components["uid"])

\* C1: while the store has its uid column (removeComponent was never called
\* with "uid"), every registered component array is as long as the uid
\* array, after every addEntity, addComponent, removeComponent and runSystems.
C1_ColumnsMatchEntityCount ==
    ~UidMissing =>
        \A k \in DOMAIN components : Len(components[k]) = EntityCount

\* a pass over MaxEntities entities has run on a store with a user column
C1_Witness ==
    /\ last.op = "runSystems"
    /\ last.log # <<>>
    /\ ~UidMissing
    /\ "x" \in DOMAIN components
    /\ EntityCount = MaxEntities

\* C2: addComponent with a name that is already registered (uid included)
\* fails with "Component already exists" and changes no component array,
\* no recorded default and so not the entity count.
C2_ExistingNameFailsUnchanged ==
    [][(last'.op = "addComponent" /\ last'.name \in DOMAIN components)
         => /\ last'.err = "Component already exists"
            /\ components' = components
            /\ componentDefaults' = componentDefaults]_vars

\* addComponent("x", fill, default) has failed on a store whose x column
\* holds another value than fill and whose default for x is not default
C2_Witness ==
    /\ last.op = "addComponent"
    /\ last.err = "Component already exists"
    /\ last.name = "x"
    /\ Len(components["x"]) > 0
    /\ components["x"][1] # last.fill
    /\ componentDefaults["x"] # last.dflt

\* the calls of the last pass that returned an update for component k
\* while entity e (0-based) was processed
UpdatesOf(log, k, e) ==
    {n \in 1..Len(log) : /\ log[n].entity = e
                         /\ ~log[n].res.isNull
                         /\ k \in DOMAIN log[n].res.upd}

Latest(S) == CHOOSE n \in S : \A m \in S : m <= n

\* C3: a system's partial update for a registered component k, returned
\* while entity e is processed, changes slot k[e] only: after a pass every
\* slot k[e] holds the last value returned for k while e was processed, and
\* its old value if there was none; no column is added, removed or resized.
C3_OnlyUpdatedSlotChanges ==
    [][last'.op = "runSystems"
         => /\ DOMAIN components' = DOMAIN components
            /\ \A k \in DOMAIN components :
                  /\ Len(components'[k]) = Len(components[k])
                  /\ \A e \in 1..Len(components[k]) :
                        LET ns == UpdatesOf(last'.log, k, e - 1)
                        IN  components'[k][e] =
                              IF ns = {} THEN components[k][e]
                              ELSE last'.log[Latest(ns)].res.upd[k]]_vars

\* a pass over two entities, on a store with the columns x and y, in which
\* a system returned x = 1 for one entity, whose x was 0, and no system
\* returned an update for x for the other
C3_Witness ==
    /\ last.op = "runSystems"
    /\ EntityCount = 2
    /\ {"x", "y"} \subseteq DOMAIN components
    /\ \E e \in {0, 1} :
          /\ \E n \in UpdatesOf(last.log, "x", e) : last.log[n].input["x"] = 0
          /\ components["x"][e + 1] = 1
          /\ UpdatesOf(last.log, "x", 1 - e) = {}

\* C4: a runSystems pass in which every system call returned null leaves
\* the component arrays, the defaults and the system registry unchanged;
\* this holds of every such pass, so of a second one as well.
C4_NullSystemsChangeNothing ==
    [][(/\ last'.op = "runSystems"
        /\ \A n \in 1..Len(last'.log) : last'.log[n].res.isNull)
         => /\ components' = components
            /\ componentDefaults' = componentDefaults
            /\ systems' = systems]_vars

\* a pass has run systems that all return null for every input, over two
\* entities that hold data
C4_Witness ==
    /\ last.op = "runSystems"
    /\ Len(systems) >= 2
    /\ \A j \in 1..Len(systems) : systems[j].fn = "nil"
    /\ Len(last.log) = 2 * Len(systems)
    /\ "x" \in DOMAIN components
    /\ EntityCount = 2
    /\ components["x"][1] = 1

\* C5: the calls of one pass are entity-major, system-minor: the n-th call
\* is for entity (n - 1) \div m by the ((n - 1) % m + 1)-th of the m
\* registered systems, the registry being in registration order (tokens
\* ascending); so every registered system runs once per entity and a
\* removed one not at all.
C5_CallOrder ==
    last.op = "runSystems" =>
        LET m == Len(systems)
        IN  /\ \A j, k \in 1..m : j < k => systems[j].id < systems[k].id
            /\ Len(last.log) = EntityCount * m
            /\ \A n \in 1..Len(last.log) :
                  /\ last.log[n].entity = (n - 1) \div m
                  /\ last.log[n].sys = systems[((n - 1) % m) + 1].id

\* a pass over two entities with two registered systems, after a third
\* system had been removed
C5_Witness ==
    /\ last.op = "runSystems"
    /\ EntityCount = 2
    /\ Len(systems) = 2
    /\ nextSystemId = 3
    /\ Len(last.log) = 4

\* C6: a later system of the same entity pass receives the updates of the
\* earlier ones: when a call returned a value for a registered component k
\* and no call in between returned another, a later call for the same
\* entity is given that value as its input for k.
C6_LaterSystemsSeeUpdates ==
    last.op = "runSystems" =>
        \A n, m \in 1..Len(last.log) :
            \A k \in DOMAIN components :
                (/\ n < m
                 /\ last.log[n].entity = last.log[m].entity
                 /\ n \in UpdatesOf(last.log, k, last.log[n].entity)
                 /\ \A p \in UpdatesOf(last.log, k, last.log[n].entity) :
                       ~(n < p /\ p < m))
                  => last.log[m].input[k] = last.log[n].res.upd[k]

\* C7: the ids addEntity has returned are 0, 1, 2, ... in this order, one
\* per entity, and the id a call returns is the number of entities there
\* were before it.
C7_IdsDenseNeverReused ==
    /\ \A n \in 1..Len(issuedIds) : issuedIds[n] = n - 1
    /\ ~UidMissing => Len(issuedIds) = EntityCount
    /\ (last.op = "addEntity" /\ last.err = "")
          => /\ last.retId = EntityCount - 1
             /\ issuedIds[Len(issuedIds)] = last.retId

\* addEntity has returned the id of the MaxEntities-th entity, for a call
\* that passed another uid
C7_Witness ==
    /\ last.op = "addEntity"
    /\ last.err = ""
    /\ Len(issuedIds) = MaxEntities
    /\ last.retId = MaxEntities - 1
    /\ "uid" \in DOMAIN last.vals
    /\ last.vals["uid"] # last.retId

\* C8, as stated: addEntity appends to every registered component array
\* (uid included) one slot holding the caller-supplied value for that
\* component if one is present, otherwise the component's declared default,
\* and leaves the earlier slots unchanged.
C8_AppendsSuppliedOrDefault ==
    [][last'.op = "addEntity"
         => /\ DOMAIN components' = DOMAIN components
            /\ \A k \in DOMAIN components :
                  components'[k] =
                      Append(components[k],
                             IF k \in DOMAIN last'.vals THEN last'.vals[k]
                             ELSE componentDefaults[k])]_vars

\* C8, amended: addEntity appends exactly one slot to every registered
\* component array and leaves the earlier slots unchanged; the slot of uid
\* holds the new id whatever the caller supplies for uid, and the slot of
\* every other component holds the caller-supplied value if one is present
\* and neither null nor undefined, otherwise the component's default.
C8_AppendsIdOrNonNullSuppliedOrDefault ==
    [][last'.op = "addEntity"
         => /\ DOMAIN components' = DOMAIN components
            /\ \A k \in DOMAIN components :
                  components'[k] =
                      Append(components[k],
                             IF k = "uid" THEN Len(components[k])
                             ELSE IF /\ k \in DOMAIN last'.vals
                                     /\ last'.vals[k] \notin {Null, Undefined}
                                  THEN last'.vals[k]
                                  ELSE componentDefaults[k])]_vars

\* a second entity was added with a value for x that is not the default of
\* x, and with a uid that is not its id
C8_Witness ==
    /\ last.op = "addEntity"
    /\ last.err = ""
    /\ EntityCount = 2
    /\ "x" \in DOMAIN components
    /\ {"x", "uid"} \subseteq DOMAIN last.vals
    /\ last.vals["x"] \in DataValues
    /\ last.vals["x"] # componentDefaults["x"]
    /\ components["x"][2] = last.vals["x"]
    /\ last.vals["uid"] # components["uid"][2]

\* C9: on a store with its uid column, addComponent(name, fill, default)
\* with an unregistered name succeeds, adds a column of one slot per entity,
\* every slot fill, changes no other column and records default for the
\* name, replacing a default recorded before a removeComponent; no other
\* call changes a recorded default; and an entity added without a value
\* for a component receives the default recorded for it.
C9_FillAndDefault ==
    [][/\ (/\ last'.op = "addComponent"
            /\ last'.name \notin DOMAIN components
            /\ ~UidMissing)
          => /\ last'.err = ""
             /\ DOMAIN components' = DOMAIN components \cup {last'.name}
             /\ \A k \in DOMAIN components : components'[k] = components[k]
             /\ Len(components'[last'.name]) = EntityCount
             /\ \A e \in 1..EntityCount :
                   components'[last'.name][e] = last'.fill
             /\ DOMAIN componentDefaults' =
                   DOMAIN componentDefaults \cup {last'.name}
             /\ componentDefaults'[last'.name] = last'.dflt
             /\ \A k \in DOMAIN componentDefaults \ {last'.name} :
                   componentDefaults'[k] = componentDefaults[k]
       /\ ~(last'.op = "addComponent" /\ last'.err = "")
          => componentDefaults' = componentDefaults
       /\ last'.op = "addEntity"
          => \A k \in DOMAIN components \ {"uid"} :
                k \notin DOMAIN last'.vals
                  => components'[k][Len(components'[k])] =
                        componentDefaults[k]]_vars

\* x was added again, to a store of two entities, with a fill value and a
\* default that differ from each other and from the default recorded for x
\* before
C9_Witness ==
    /\ last.op = "addComponent"
    /\ last.err = ""
    /\ last.name = "x"
    /\ EntityCount = 2
    /\ last.fill # last.dflt
    /\ last.prev \notin {Undefined, last.dflt}
    /\ components["x"] = <<last.fill, last.fill>>
    /\ componentDefaults["x"] = last.dflt

\* C10: getById(id) returns the snapshot of slot id when id is the id of an
\* entity and the empty record when id < 0 or id >= the entity count.
C10_SnapshotOrEmpty ==
    (last.op = "getById" /\ last.err = "")
      => last.retObj =
            IF 0 <= last.id /\ last.id < EntityCount
            THEN [k \in DOMAIN components |-> components[k][last.id + 1]]
            ELSE EmptyRecord

\* C11: of the messages delivered to one render worker only the first is
\* bootstrapped: initialization is started once, with that message's module
\* and memory, worker_entrypoint is called at most once, with that message's
\* entry pointer, and every later message leaves all of this as it was, also
\* one delivered while the first initialization is still awaited.
C11_BootstrapFirstMessageOnly ==
    /\ Len(entrypointCalls) <= 1
    /\ Len(entrypointCalls) + Len(pendingInits) + initFailures = Len(initCalls)
    /\ initCalls = IF inbox = <<>> THEN <<>>
                   ELSE << <<inbox[1][1], inbox[1][3]>> >>
    /\ \A i \in 1..Len(entrypointCalls) : entrypointCalls[i] = inbox[1][4]
    /\ \A i \in 1..Len(pendingInits) : pendingInits[i] = inbox[1]

\* a second, different message has been delivered while the initialization
\* started by the first is still awaited
C11_Witness ==
    /\ Len(inbox) = 2
    /\ inbox[2][4] # inbox[1][4]
    /\ pendingInits = <<inbox[1]>>
    /\ entrypointCalls = <<>>

\* C12: in the frame loop of every scene each frame callback makes exactly
\* one runSystems pass and registers exactly one next callback, and the
\* callback it registers is not run within it: between callbacks each loop
\* has one callback waiting and as many passes made as callbacks run.
C12_OnePassOneCallbackPerTick ==
    /\ Len(ticks) = engineCount /\ Len(passes) = engineCount
    /\ \A s \in 1..engineCount :
          /\ passes[s] = ticks[s]
          /\ Cardinality({i \in 1..Len(frameQueue) : frameQueue[i] = s}) = 1

\* two loops are running and one of them has ticked more than once
C12_Witness ==
    /\ engineCount = 2
    /\ ticks[1] >= 2 /\ ticks[2] >= 1

\* what the claim calls a message to ignore
Ignorable(data) ==
    \/ data.type # "array"
    \/ data.items = <<>>
    \/ data.items[1] \notin {MessageType[k] : k \in DOMAIN MessageType}

\* C16: a message that is not an array, is an empty array, or whose first
\* element is none of the message kinds is ignored by handleConnection: it
\* throws nothing, obtains no drawing context, creates no engine or scene
\* and starts no frame loop.
C16_IgnoredMessagesDoNothing ==
    [][(Len(received') = Len(received) + 1
          /\ Ignorable(received'[Len(received')]))
       => UNCHANGED <<engineCount, contextCalls, frameQueue, ticks, passes,
                      renderErrors>>]_vars

\* a non-array, an empty array and an array of unknown kind have been
\* handled, and nothing was thrown or created
C16_Witness ==
    /\ Len(received) = 3
    /\ \A i \in 1..3 : Ignorable(received[i])
    /\ received[1].type # "array"
    /\ received[2] = ArrayData(<<>>)
    /\ received[3] = ArrayData(<<7, "canvas">>)
    /\ renderErrors = <<>> /\ engineCount = 0 /\ contextCalls = 0

\* the messages of connection c among the entries new of posted
PostsOf(new, c) == {i \in 1..Len(new) : new[i].conn = c}

\* C13: while a connection is connected, each pointermove, pointerdown,
\* pointerup, keydown and keyup event dispatched on the document posts
\* exactly one message through it; once its disconnect function has been
\* called none of its listeners is left and no event posts through it.
C13_OneMessagePerEventWhileConnected ==
    [][/\ \A c \in 1..Len(connState') :
             connState'[c] = "disconnected"
                => \A i \in 1..Len(listeners') : listeners'[i].conn # c
       /\ Len(domEvents') = Len(domEvents) + 1
             => LET e == domEvents'[Len(domEvents')]
                    new == SubSeq(posted', Len(posted) + 1, Len(posted'))
                IN  \A c \in 1..Len(connState) :
                       Cardinality(PostsOf(new, c)) =
                          IF /\ connState[c] = "connected"
                             /\ e.type \in PointerNames \cup KeyNames
                          THEN 1 ELSE 0]_vars

\* a keyup event was dispatched with one connection connected and the other
\* disconnected, and posted one message
C13_Witness ==
    /\ connState = <<"disconnected", "connected">>
    /\ Len(domEvents) = 1 /\ domEvents[1].type = "keyup"
    /\ Len(posted) = 1 /\ posted[1].conn = 2

\* C14: every message the orchestrating context posts is an array whose
\* first element is one of the message kinds 0, 1, 2; a domEvent message is
\* [0, tag, clientX, clientY] for a pointer event and [0, tag, key] for a
\* keyboard event, tag being the EventTypes tag of the event's name.
C14_PostedMessageShape ==
    \A i \in 1..Len(posted) :
       LET m == posted[i].msg
           e == posted[i].event
       IN  /\ Len(m) >= 1
           /\ m[1] \in {MessageType.domEvent, MessageType.custom,
                        MessageType.attachCanvas}
           /\ m[1] = MessageType.domEvent =>
                 \/ /\ e.type \in PointerNames
                    /\ m = <<0, EventTypes[e.type], e.clientX, e.clientY>>
                 \/ /\ e.type \in KeyNames
                    /\ m = <<0, EventTypes[e.type], e.key>>

\* a pointerup message and the attachCanvas message have both been posted
C14_Witness ==
    /\ \E i \in 1..Len(posted) : posted[i].event.type = "pointerup"
    /\ \E i \in 1..Len(posted) : posted[i].msg[1] = MessageType.attachCanvas

\* the DOM event an array of kind domEvent stands for, by the tag table
DecodeDomEvent(items) ==
    LET name == CHOOSE n \in DOMAIN EventTypes : EventTypes[n] = items[2]
    IN  IF name \in PointerNames
        THEN [NoEvent EXCEPT !.type = name, !.clientX = items[3],
                             !.clientY = items[4]]
        ELSE [NoEvent EXCEPT !.type = name, !.key = items[3]]

MainCanDraw == canvasMode = "element" \/ "main" \in handleHolders
RenderCanDraw == "render" \in handleHolders

\* C17: a call of attachCanvas that returns has posted exactly one
\* [attachCanvas, handle] message and has transferred the handle: from then
\* on the orchestrating context cannot obtain a drawing context for the
\* canvas, and never can both contexts.
C17_CanvasTransferredOnce ==
    /\ ~(MainCanDraw /\ RenderCanDraw)
    /\ canvasMode = "placeholder" => ~MainCanDraw
    /\ Cardinality({i \in 1..Len(posted) : posted[i].conn = 0}) =
          IF canvasMode = "placeholder" THEN 1 ELSE 0
    /\ \A i \in 1..Len(posted) :
          posted[i].conn = 0 =>
             posted[i].msg = <<MessageType.attachCanvas, "canvas">>
    /\ (mainLast.op = "attachCanvas" /\ mainLast.err = "")
          => canvasMode = "placeholder"

\* the handle has reached the rendering context, which got its drawing
\* context from it, and a second attachCanvas has been refused
C17_Witness ==
    /\ RenderCanDraw
    /\ contextCalls = 1
    /\ mainLast.err = "InvalidStateError"

\* the entities of the store that are meshes, as positions of the columns
MeshSlots == {i \in 1..Len(components["uid"]) : Truthy(components["isMesh"][i])}

\* C18: one runSystems pass of a Scene with an active camera makes exactly
\* one drawArrays(TRIANGLES, 0, attr_pos.length / 3) call for each mesh
\* entity and none for any other entity, and with activeCamera = -1 makes
\* no draw call; in both cases it replaces the u_model_matrix of each mesh
\* entity by the matrix computed in the pass and leaves the others' alone.
C18_OneDrawPerMesh ==
    [][passCount' = passCount + 1 =>
         /\ IF activeCamera = -1 THEN drawCalls' = <<>>
            ELSE /\ Len(drawCalls') = Cardinality(MeshSlots)
                 /\ \A i \in MeshSlots :
                       \E j \in 1..Len(drawCalls') :
                          drawCalls'[j] =
                             [mode |-> "TRIANGLES", first |-> 0,
                              count |-> components["attr_pos"][i] \div 3,
                              entity |-> i - 1,
                              model |-> components["u_model_matrix"][i]]
         /\ \A i \in 1..Len(components["uid"]) :
               IF i \in MeshSlots
               THEN components'["u_model_matrix"][i]
                       \in {ModelMatrix(t) : t \in Times}
               ELSE components'["u_model_matrix"][i] =
                       components["u_model_matrix"][i]]_vars

\* a scene of the default material, a mesh of one triangle and the active
\* camera has made a pass: one draw of 3 vertices, the mesh's matrix changed
C18_Witness ==
    /\ activeCamera = 2
    /\ passCount = 1
    /\ components["isMesh"] = <<Null, 1, Null>>
    /\ components["attr_pos"] = <<0, 9, 0>>
    /\ Len(drawCalls) = 1 /\ drawCalls[1].count = 3 /\ drawCalls[1].entity = 1
    /\ components["u_model_matrix"][2] # Identity
    /\ components["u_model_matrix"][3] = Identity

\* C19: every mesh entity holds an attr_pos whose length is a multiple of
\* 9, in every state reached by addMesh, addCamera and runSystems, and the
\* positions addMesh stores are those given, cut down to the largest whole
\* number of triangles.
C19_WholeTriangles ==
    activeCamera # Undefined =>
       /\ \A i \in MeshSlots : components["attr_pos"][i] % 9 = 0
       /\ Len(lastMesh.positions) = 9 * (Len(lastMesh.input) \div 9)
       /\ lastMesh.positions =
             SubSeq(lastMesh.input, 1, Len(lastMesh.positions))

\* a mesh given 11 positions holds 9 of them, and a pass has been made
C19_Witness ==
    /\ activeCamera # Undefined
    /\ Len(lastMesh.input) = 11
    /\ \E i \in MeshSlots : components["attr_pos"][i] = 9
    /\ passCount >= 1

\* the normal of triangle i of positions as the claim has it and as the
\* code has it: the unit vector of (b - a) x (c - a), of (c - a) x (b - a)
WindingNormal(positions, i, reversed) ==
    LET a == SubSeq(positions, 9 * i + 1, 9 * i + 3)
        b == SubSeq(positions, 9 * i + 4, 9 * i + 6)
        c == SubSeq(positions, 9 * i + 7, 9 * i + 9)
        ba == <<b[1] - a[1], b[2] - a[2], b[3] - a[3]>>
        ca == <<c[1] - a[1], c[2] - a[2], c[3] - a[3]>>
        n == <<ba[2] * ca[3] - ba[3] * ca[2], ba[3] * ca[1] - ba[1] * ca[3],
               ba[1] * ca[2] - ba[2] * ca[1]>>
    IN  Normalize(IF reversed THEN <<-n[1], -n[2], -n[3]>> ELSE n)

\* the normals of the last mesh are, triangle by triangle, one normal given
\* by WindingNormal three times over, as many numbers as the positions
NormalsAre(reversed) ==
    (activeCamera # Undefined /\ ~lastMesh.given) =>
       /\ Len(lastMesh.normals) = Len(lastMesh.positions)
       /\ \A i \in 0..(Len(lastMesh.positions) \div 9 - 1) :
             \A v \in 0..2 :
                SubSeq(lastMesh.normals, 9 * i + 3 * v + 1,
                       9 * i + 3 * v + 3) =
                   WindingNormal(lastMesh.positions, i, reversed)

\* C20 as stated: with normals omitted addMesh stores for each triangle
\* (a, b, c) the unit vector of (b - a) x (c - a), once for each of its three
\* vertices, attr_normals being as long as attr_pos.
C20_NormalsInWindingOrder == NormalsAre(FALSE)

\* C20 amended: with normals omitted addMesh stores for each triangle
\* (a, b, c) the unit vector of (c - a) x (b - a), the opposite of the
\* above, once for each of its three vertices, attr_normals being as long
\* as attr_pos.
C20_NormalsAgainstWindingOrder == NormalsAre(TRUE)

\* the first triangle of cubeVertices, given without normals, has the
\* normal (0, 0, 1) three times
C20_Witness ==
    /\ ~lastMesh.given
    /\ lastMesh.positions = <<1, -1, 1, -1, -1, 1, -1, 1, 1>>
    /\ lastMesh.normals = <<0, 0, 1, 0, 0, 1, 0, 0, 1>>

\* C26: in a constructed Scene activeCamera is -1 or the id of an entity
\* made by addCamera; the constructor sets it to -1, addCamera(name, true)
\* to the id of the entity it makes, and addCamera(name, false), addMesh,
\* addMaterial and runSystems leave it as it is.
C26_ActiveCameraIsACamera ==
    [][activeCamera' # Undefined =>
         /\ \/ activeCamera' = -1
            \/ /\ activeCamera' \in 0..(Len(createdBy') - 1)
               /\ createdBy'[activeCamera' + 1].op = "addCamera"
         /\ IF activeCamera = Undefined THEN activeCamera' = -1
            ELSE IF /\ Len(createdBy') = Len(createdBy) + 1
                    /\ createdBy'[Len(createdBy')] = Maker("addCamera", TRUE)
            THEN activeCamera' = Len(createdBy)
            ELSE activeCamera' = activeCamera]_vars

\* the first camera was added active, a second one not, a pass was made:
\* the first is still the active one
C26_Witness ==
    /\ createdBy = <<Maker("addMaterial", FALSE), Maker("addCamera", TRUE),
                     Maker("addCamera", FALSE)>>
    /\ activeCamera = 1
    /\ passCount >= 1

\* C27: the program, vao and isMaterial slots of an entity made by
\* addMaterial are the same after every addMesh, addCamera, addMaterial
\* and runSystems as before it.
C27_MaterialSlotsKept ==
    [][\A i \in 1..Len(createdBy) :
          createdBy[i].op = "addMaterial" =>
             \A k \in {"program", "vao", "isMaterial"} :
                components'[k][i] = components[k][i]]_vars

\* a Scene with a second material and a mesh has made two passes, and the
\* second material still has its handles
C27_Witness ==
    /\ createdBy = <<Maker("addMaterial", FALSE), Maker("addMaterial", FALSE),
                     Maker("addMesh", FALSE)>>
    /\ passCount = 2
    /\ components["program"][2] = 1 /\ components["vao"][2] = 1
    /\ components["isMaterial"][2] = 1

\* C28: every entity has exactly the kind flag of the method that made it:
\* isCamera (with a model and a projection matrix) for addCamera, isMesh for
\* addMesh, isMaterial for addMaterial.
C28_KindFlagOfMaker ==
    \A i \in 1..Len(createdBy) :
       /\ {k \in {"isCamera", "isMesh", "isMaterial"} :
              Truthy(components[k][i])}
             = {CASE createdBy[i].op = "addCamera" -> "isCamera"
                  [] createdBy[i].op = "addMesh" -> "isMesh"
                  [] createdBy[i].op = "addMaterial" -> "isMaterial"}
       /\ createdBy[i].op = "addCamera" =>
             /\ ~Nullish(components["u_model_matrix"][i])
             /\ ~Nullish(components["u_projection_matrix"][i])

\* C29: the uid column is the identity on entity ids, uid[i] = i for every
\* entity i, after any addEntity, addComponent and runSystems calls, whatever
\* values addEntity is given and whatever updates the systems return.
C29_UidIsIdentity ==
    \A i \in 1..Len(components["uid"]) : components["uid"][i] = i - 1

\* C30: the set of component names changes only in addComponent and
\* removeComponent; addEntity leaves every slot there was as it is, whatever
\* names it is given, and runSystems leaves every slot as it is for which
\* no system returned an update, whatever names the updates hold.
C30_NamesChangeOnlyByComponentCalls ==
    [][/\ DOMAIN components' # DOMAIN components
             => last'.op \in {"addComponent", "removeComponent"}
       /\ last'.op = "addEntity"
             => \A k \in DOMAIN components :
                   \A e \in 1..Len(components[k]) :
                      components'[k][e] = components[k][e]
       /\ last'.op = "runSystems"
             => \A k \in DOMAIN components :
                   \A e \in 1..Len(components[k]) :
                      UpdatesOf(last'.log, k, e - 1) = {}
                         => components'[k][e] = components[k][e]]_vars

\* a pass in which a system returned an update for y, a name never
\* registered, has been made on a store with two entities
C30_Witness ==
    /\ last.op = "runSystems"
    /\ \E n \in 1..Len(last.log) :
          /\ ~last.log[n].res.isNull
          /\ "y" \in DOMAIN last.log[n].res.upd
    /\ "y" \notin DOMAIN components
    /\ Len(components["x"]) = 2

\* the primitives of a container in the order loadModel visits them
RECURSIVE Flatten(_)
Flatten(meshes) ==
    IF meshes = <<>> THEN <<>> ELSE Head(meshes) \o Flatten(Tail(meshes))

\* the context created every buffer it was asked for
EveryBufferCreated ==
    \A n \in 1..Len(glConsole) :
       glConsole[n] \notin {"failed to create buffer",
                            "failed to create index buffer"}

\* the calls of fn made for tag while primitive p was imported
CallsFor(fn, tag, p) ==
    {n \in 1..Len(glCalls) : /\ glCalls[n].fn = fn
                             /\ glCalls[n].tag = tag
                             /\ glCalls[n].prim = p}

\* C21: for a container with all three sections in which every primitive
\* has an index accessor with a buffer view, and every attribute accessor a
\* buffer view and a known type, loadModel returns the index count of the
\* last primitive; without one of the sections it returns nothing and
\* uploads no buffer.
C21_ReturnsLastIndexCount ==
    glLast.op = "loadModel" =>
       LET c == glInput.container
           prims == Flatten(c.list)
           wellFormed ==
              \A j \in 1..Len(prims) :
                 /\ prims[j].hasIndices /\ prims[j].indices.hasView
                 /\ \A a \in DOMAIN prims[j].attributes :
                       /\ prims[j].attributes[a].hasView
                       /\ ComponentsPerVertex(prims[j].attributes[a].type) > 0
       IN  IF c.meshes /\ c.bufferViews /\ c.accessors
           THEN wellFormed /\ prims # <<>> /\ EveryBufferCreated
                   => /\ ~glLast.threw
                      /\ glLast.ret = prims[Len(prims)].indices.count
           ELSE glLast.ret = Undefined /\ glCalls = <<>>

\* C22: loadModel never hands the indices of an accessor that declares
\* 32-bit components to the context as 16-bit indices: it uploads them 32
\* bits wide or not at all.
C22_IndexWidthAsDeclared ==
    glLast.op = "loadModel" =>
       LET prims == Flatten(glInput.container.list)
       IN  \A j \in 1..Len(prims) :
              prims[j].indices.componentType = "UNSIGNED_INT"
                 => \A n \in CallsFor("bufferData", "INDEX", j) :
                       glCalls[n].n2 = 32

\* C23: when draw cannot create the program or a shader, or a shader does
\* not compile, or the program does not link, it does not use the program,
\* and then, as when no vertex array object is created, it issues no draw
\* call and does not start the render loop.
C23_FailedSetupAborts ==
    glLast.op \in {"draw", "render"} =>
       LET sh == glInput.shaders
           failed == \/ ~sh.program
                     \/ sh.vs # "compiled" \/ sh.fs # "compiled"
                     \/ ~sh.link
           Made(fn) == \E n \in 1..Len(glCalls) : glCalls[n].fn = fn
       IN  /\ failed => ~Made("useProgram")
           /\ failed \/ ~glInput.vao
                 => /\ ~Made("drawElementsInstanced")
                    /\ glPending = 0
                    /\ glFrames = 0

\* the calls of fn among the calls made, in order
CallsOf(fn) == SelectSeq(glCalls, LAMBDA c : c.fn = fn)

\* a matrix attribute of stride 16 whose location resolves and whose buffer
\* is created is bound to the 4 locations from its base location, each row a
\* 4-float pointer with stride 64 at offset(row), and each row is marked per
\* instance (divisor 1) when numInstances > 1
MatrixBinding(offset(_)) ==
    /\ glLast.op = "processAttribute"
    /\ glInput.attributes[1].stride = 16
    /\ "model" \in glInput.locations
    /\ glInput.buffers > 0
    => LET base == LocationOf(glInput.locations, "model")
           At4(fn, n2, n3, n4(_)) ==
              [row \in 1..4 |->
                  GlCall(fn, "model", 0, base + row - 1, n2, n3,
                         n4(row - 1))]
       IN  /\ CallsOf("enableVertexAttribArray")
                 = At4("enableVertexAttribArray", 0, 0, LAMBDA row : 0)
           /\ CallsOf("vertexAttribPointer")
                 = At4("vertexAttribPointer", 4, 64, offset)
           /\ glInput.attributes[1].numInstances > 1
                 => CallsOf("vertexAttribDivisor")
                       = At4("vertexAttribDivisor", 1, 0, LAMBDA row : 0)

\* C24 as stated: a matrix attribute with stride 16 is bound to the 4
\* locations from its base location, each row a 4-float pointer at byte
\* offset row * stride * 4, and each row per instance when numInstances > 1.
C24_RowsAtStrideTimesFour == MatrixBinding(LAMBDA row : row * 16 * 4)

\* C24: a matrix attribute with stride 16 is bound to the 4 locations from
\* its base location, each row a 4-float pointer with stride 64 at offset
\* row * stride (0, 16, 32, 48), and each row is marked per instance
\* (divisor 1) when numInstances > 1; the instance data are regenerated
\* exactly when numInstances > 1.
C24_RowsAtStride ==
    /\ MatrixBinding(LAMBDA row : row * 16)
    /\ glLast.op = "processAttribute" /\ CallsOf("bufferData") # <<>>
          => CallsOf("bufferData")[1].n3
                = (IF glInput.attributes[1].numInstances > 1 THEN 1 ELSE 0)

\* a matrix attribute of two instances has been bound
C24_Witness ==
    /\ glLast.op = "processAttribute"
    /\ glInput.attributes[1].stride = 16
    /\ glInput.attributes[1].numInstances = 2
    /\ Len(glCalls) = 13
    /\ glCalls[12].n4 = 48

\* C25: a semantic that is absent from a primitive, or whose accessor has no
\* buffer view, or for which the shader has no location, is skipped for that
\* primitive only: loadModel does not fail, binds every other semantic of
\* every primitive and uploads the index buffer of every primitive.
C25_UnresolvedSemanticSkipped ==
    glLast.op = "loadModel" /\ EveryBufferCreated
       /\ glInput.container.meshes /\ glInput.container.bufferViews
       /\ glInput.container.accessors
    => LET prims == Flatten(glInput.container.list)
           Resolved(j, a) ==
              /\ a \in DOMAIN prims[j].attributes
              /\ prims[j].attributes[a].hasView
              /\ ComponentsPerVertex(prims[j].attributes[a].type) > 0
              /\ AttributeName(a) \in glInput.locations
       IN  /\ ~glLast.threw
           /\ \A j \in 1..Len(prims) :
                 /\ \A k \in 1..Len(Semantics) :
                       Resolved(j, Semantics[k])
                          <=> CallsFor("vertexAttribPointer", Semantics[k], j)
                                 # {}
                 /\ /\ prims[j].hasIndices /\ prims[j].indices.hasView
                    /\ prims[j].indices.byteOffset # Undefined
                    => CallsFor("bufferData", "INDEX", j) # {}

\* C31: the flag is set before initialization is awaited, so once the
\* initialization started by the first bootstrap message has failed, or
\* while it has not completed, every later message is ignored, no second
\* initialization is started, and worker_entrypoint is not called: it is
\* called only when an awaited initialization is fulfilled, never after a
\* failed one.
C31_FailedBootstrapIsFinal ==
    [][/\ pendingInits' # <<>> \/ initFailures' >= 1
             => isReady' /\ Len(initCalls') = 1 /\ entrypointCalls' = <<>>
       /\ (pendingInits # <<>> \/ initFailures >= 1)
             /\ Len(inbox') = Len(inbox) + 1
             => UNCHANGED <<isReady, initCalls, pendingInits,
                            entrypointCalls, initFailures>>
       /\ entrypointCalls' # entrypointCalls
             => /\ Len(pendingInits') < Len(pendingInits)
                /\ initFailures' = initFailures]_vars

\* the first initialization has failed, two more bootstrap messages have
\* been delivered, and nothing was started or called for them
C31_Witness ==
    /\ initFailures = 1
    /\ Len(inbox) = 3
    /\ inbox[3][4] # inbox[1][4]
    /\ Len(initCalls) = 1
    /\ pendingInits = <<>>
    /\ entrypointCalls = <<>>

\* C32: however many attachCanvas messages are handled, at most one engine
\* and scene is created and at most one frame loop runs, so that at most one
\* callback, making one runSystems pass, is waiting for the next frame.
C32_AtMostOneFrameLoop ==
    /\ engineCount <= 1
    /\ Len(frameQueue) <= 1

====
